---- MODULE Spec2Model ----
(***************************************************************************)
(* The notebook database_population_and_querying.ipynb as a state machine: *)
(* parse_data fetches a match list and each match's events, normalizes the *)
(* events into a DataFrame, and the following cells rename the columns,    *)
(* split the location columns, remove columns and load the table into the  *)
(* SQL store.                                                              *)
(*                                                                         *)
(* A column name is a sequence of tokens; the tokens are the words and the *)
(* separators "." and "_" the name is written with, so that 'location' in  *)
(* name, str.replace and name equality are computed on the name itself.    *)
(* A JSON value is a record [t, v]: t its Python type, v its payload.      *)
(* A mapping is the sequence of its <<key, value>> items in dict order.    *)
(* Event keys hold no "." (StatsBomb keys never do).                       *)
(***************************************************************************)
EXTENDS Integers, Sequences, FiniteSets, TLC

\* Bounds of the model.
MaxMatches == 2
MaxEvents == 2

-----------------------------------------------------------------------------
\* JSON values as Python holds them after .json()

Null == [t |-> "null", v |-> <<>>]
Num(n) == [t |-> "num", v |-> <<n>>]
Str(s) == [t |-> "str", v |-> <<s>>]
List(s) == [t |-> "list", v |-> s]
Map(items) == [t |-> "map", v |-> items]

\* string, number, boolean or null: what a SQL column can hold
IsScalar(x) == x.t \in {"null", "num", "str"}

\* Keys of the events
K_type == <<"type">>
K_name == <<"name">>
K_pass == <<"pass">>
K_end_location == <<"end", "_", "location">>
K_shot == <<"shot">>
K_xg == <<"xg">>
K_tactics == <<"tactics">>
K_lineup == <<"lineup">>
K_related_events == <<"related", "_", "events">>
K_tags == <<"tags">>
K_k == <<"k">>
K_pass_end_location == <<"pass", "_", "end", "_", "location">>
K_pass_end_x == <<"pass", "_", "end", "_", "x">>

\* The events the data source may return (Raw Events).
EvPass == <<
    <<K_type, Map(<< <<K_name, Str("Pass")>> >>)>>,
    <<K_pass, Map(<< <<K_end_location, List(<<Num(10), Num(20)>>)>> >>)>> >>
EvShot == <<
    <<K_type, Map(<< <<K_name, Str("Shot")>> >>)>>,
    <<K_related_events, List(<<Str("e1")>>)>>,
    <<K_shot, Map(<< <<K_xg, Num(5)>> >>)>> >>
EvPass3 == << <<K_pass, Map(<< <<K_end_location, List(<<Num(11), Num(21), Num(31)>>)>> >>)>> >>
EvPass1 == << <<K_pass, Map(<< <<K_end_location, List(<<Num(12)>>)>> >>)>> >>
EvPass0 == << <<K_pass, Map(<< <<K_end_location, List(<<>>)>> >>)>> >>
EvPassScalar == << <<K_pass, Map(<< <<K_end_location, Num(7)>> >>)>> >>
EvPassNull == << <<K_pass, Map(<< <<K_end_location, Null>> >>)>> >>
EvLineupList == <<
    <<K_tactics, Map(<< <<K_lineup, List(<< Map(<< <<K_k, Num(1)>> >>) >>)>> >>)>> >>
EvLineupMap == <<
    <<K_tactics, Map(<< <<K_lineup, Map(<< <<K_k, Num(2)>> >>)>> >>)>> >>
EvTags == << <<K_tags, List(<<Num(3), Num(4)>>)>> >>
EvNestedLocation == <<
    <<K_pass, Map(<< <<K_end_location,
        List(<< List(<<Num(1), Num(2)>>), Map(<< <<K_k, Num(8)>> >>) >>)>> >>)>> >>
EvTopLocation == << <<K_pass_end_location, List(<<Num(30), Num(40)>>)>> >>
EvOverwrite == << <<K_pass_end_x, Num(99)>> >>

EventPool == {EvPass, EvShot, EvPass3, EvPass1, EvPass0, EvPassScalar, EvPassNull,
              EvLineupList, EvLineupMap, EvTags, EvNestedLocation, EvTopLocation, EvOverwrite}

MatchIdPool == {7, 8}

\* All sequences over S of length at most n
SeqsUpTo(S, n) == UNION {[1..k -> S] : k \in 0..n}

-----------------------------------------------------------------------------
\* Strings

\* k.replace(".", "_")
replace_dot(name) == [i \in 1..Len(name) |-> IF name[i] = "." THEN "_" ELSE name[i]]

\* 'location' in x
has_location(name) == \E i \in 1..Len(name) : name[i] = "location"

\* col.replace("location", dimension)
replace_location(name, dimension) ==
    [i \in 1..Len(name) |-> IF name[i] = "location" THEN dimension ELSE name[i]]

\* enumerate(["x", "y"])
Dimensions == <<"x", "y">>

\* (mutant) 'tactics_lineup' left out of the list
columns_to_remove_short == << <<"related", "_", "events">>,
                              <<"shot", "_", "freeze", "_", "frame">> >>

columns_to_remove == << <<"tactics", "_", "lineup">>,
                        <<"related", "_", "events">>,
                        <<"shot", "_", "freeze", "_", "frame">> >>

\* c in seq
In(c, seq) == \E i \in 1..Len(seq) : seq[i] = c

Count(c, seq) == Cardinality({i \in 1..Len(seq) : seq[i] = c})

RECURSIVE Concat(_)
Concat(ss) == IF ss = <<>> THEN <<>> ELSE Head(ss) \o Concat(Tail(ss))

-----------------------------------------------------------------------------
\* pandas

\* pd.json_normalize on one dict (nested_to_record): nested mappings are
\* expanded into "."-joined paths, anything else (lists too) is a leaf.
\* At level 0 the non-dict items keep their place and the expanded dicts
\* follow them; below, items are re-inserted in iteration order.
RECURSIVE walk(_, _, _, _)
walk(d, prefix, level, part) ==
    IF d = <<>> THEN <<>>
    ELSE LET k == Head(d)[1]
             v == Head(d)[2]
             newkey == IF level = 0 THEN k ELSE prefix \o <<".">> \o k
             here == IF v.t = "map"
                     THEN IF part = "leaves" THEN <<>>
                          ELSE walk(v.v, newkey, level + 1, "all")
                     ELSE IF part = "dicts" THEN <<>>
                          ELSE << <<newkey, v>> >>
         IN  here \o walk(Tail(d), prefix, level, part)

nested_to_record(d) == walk(d, <<>>, 0, "leaves") \o walk(d, <<>>, 0, "dicts")

\* (mutant) a missing field filled with 0 instead of NaN
Lookup_zero(rec, name) ==
    IF \E i \in 1..Len(rec) : rec[i][1] = name
    THEN rec[CHOOSE i \in 1..Len(rec) : rec[i][1] = name][2]
    ELSE Num(0)

\* the value a flat record holds for a name, NaN (null) when it has none
Lookup(rec, name) ==
    IF \E i \in 1..Len(rec) : rec[i][1] = name
    THEN rec[CHOOSE i \in 1..Len(rec) : rec[i][1] = name][2]
    ELSE Null

\* the names of the flat records in order of first appearance
RECURSIVE first_seen(_, _)
first_seen(names, acc) ==
    IF names = <<>> THEN acc
    ELSE first_seen(Tail(names),
                    IF In(Head(names), acc) THEN acc ELSE Append(acc, Head(names)))

\* DataFrame(list of flat records): the columns are the union of the records'
\* names, and a record without a column holds NaN there.
DataFrame(recs) ==
    LET names == Concat([r \in 1..Len(recs) |->
                            [i \in 1..Len(recs[r]) |-> recs[r][i][1]]])
        cols == first_seen(names, <<>>)
    IN  [columns |-> cols,
         rows |-> [r \in 1..Len(recs) |->
                      [j \in 1..Len(cols) |-> Lookup(recs[r], cols[j])]]]

json_normalize(evs) == DataFrame([r \in 1..Len(evs) |-> nested_to_record(evs[r])])

EmptyFrame == [columns |-> <<>>, rows |-> <<>>]

\* df.rename(columns={k: k.replace(".", "_") for k in df.columns})
rename_columns(d) ==
    [columns |-> [j \in 1..Len(d.columns) |-> replace_dot(d.columns[j])],
     rows |-> d.rows]

\* [x for x in df.columns.values if 'location' in x]
find_location_columns(d) == SelectSeq(d.columns, has_location)

\* x[col] on one row: the cell when the label is unique; with a repeated
\* label pandas returns a Series, which is not a list
\* lambda x: x[col][i] if type(x[col]) == list else None   (i counted from 1)
\* "IndexError" stands for the exception x[col][i] raises.
IndexError == [t |-> "raise", v |-> <<>>]
\* (mutant) the index dropped: x[col] if type(x[col]) == list else None
coordinate_whole(d, row, col, i) ==
    IF Count(col, d.columns) # 1 THEN Null
    ELSE LET x == row[CHOOSE j \in 1..Len(d.columns) : d.columns[j] = col]
         IN  IF x.t = "list" THEN x ELSE Null

\* (mutant) the else branch keeps the value: ... else x[col]
coordinate_keep(d, row, col, i) ==
    IF Count(col, d.columns) # 1 THEN Null
    ELSE LET x == row[CHOOSE j \in 1..Len(d.columns) : d.columns[j] = col]
         IN  IF x.t = "list"
             THEN IF i <= Len(x.v) THEN x.v[i] ELSE IndexError
             ELSE x

coordinate(d, row, col, i) ==
    IF Count(col, d.columns) # 1 THEN Null
    ELSE LET x == row[CHOOSE j \in 1..Len(d.columns) : d.columns[j] = col]
         IN  IF x.t = "list"
             THEN IF i <= Len(x.v) THEN x.v[i] ELSE IndexError
             ELSE Null

\* df.apply(..., axis=1)
apply_coordinate(d, col, i) == [r \in 1..Len(d.rows) |-> coordinate(d, d.rows[r], col, i)]

\* df[new_col] = series: a new label is appended, an existing label is
\* overwritten (every column carrying it)
set_column(d, new_col, series) ==
    IF In(new_col, d.columns)
    THEN [columns |-> d.columns,
          rows |-> [r \in 1..Len(d.rows) |->
                      [j \in 1..Len(d.columns) |->
                          IF d.columns[j] = new_col THEN series[r] ELSE d.rows[r][j]]]]
    ELSE [columns |-> Append(d.columns, new_col),
          rows |-> [r \in 1..Len(d.rows) |-> Append(d.rows[r], series[r])]]

\* df[keys]: for each key in turn, every column carrying that label
positions(d, keys) ==
    Concat([k \in 1..Len(keys) |->
              SelectSeq([j \in 1..Len(d.columns) |-> j],
                        LAMBDA j : d.columns[j] = keys[k])])
select_columns(d, keys) ==
    LET pos == positions(d, keys)
    IN  [columns |-> [j \in 1..Len(pos) |-> d.columns[pos[j]]],
         rows |-> [r \in 1..Len(d.rows) |-> [j \in 1..Len(pos) |-> d.rows[r][pos[j]]]]]

\* (mutant) the test inverted: [c for c in df.columns if c in names]
keep_columns(d, names) ==
    select_columns(d, SelectSeq(d.columns, LAMBDA c : In(c, names)))

\* df[[c for c in df.columns if c not in names]]
drop_columns(d, names) ==
    select_columns(d, SelectSeq(d.columns, LAMBDA c : ~In(c, names)))

Distinct(seq) == \A i, j \in 1..Len(seq) : seq[i] = seq[j] => i = j

AllScalar(d) == \A r \in 1..Len(d.rows) : \A j \in 1..Len(d.columns) : IsScalar(d.rows[r][j])

\* df.to_sql: the table is created with one column per label and the cells
\* are bound as SQL parameters; a repeated label or a list/dict cell raises
sql_accepts(d) == Distinct(d.columns) /\ AllScalar(d)

-----------------------------------------------------------------------------
\* The notebook, cell by cell

VARIABLES pc, requests, served, match_ids, mi, events, df, location_columns,
          col_i, dim_i, error, store

vars == <<pc, requests, served, match_ids, mi, events, df, location_columns,
          col_i, dim_i, error, store>>

NoTable == [columns |-> <<>>, rows |-> <<>>, loaded |-> FALSE]

Init ==
    /\ pc = "get_matches"
    /\ requests = <<>>
    /\ served = <<>>
    /\ match_ids = <<>>
    /\ mi = 1
    /\ events = <<>>
    /\ df = EmptyFrame
    /\ location_columns = <<>>
    /\ col_i = 1
    /\ dim_i = 1
    /\ error = "none"
    /\ store = NoTable

\* The log of the HTTP requests issued, each with its outcome.
MatchesRequest(ok) == [kind |-> "matches", id |-> 0, ok |-> ok]
EventsRequest(m, ok) == [kind |-> "events", id |-> m, ok |-> ok]

\* requests.get(comp_url).json() returns the match list
GetMatchesOk ==
    /\ pc = "get_matches"
    /\ requests' = Append(requests, MatchesRequest(TRUE))
    /\ \E ids \in SeqsUpTo(MatchIdPool, MaxMatches) : match_ids' = ids
    /\ pc' = "get_events"
    /\ UNCHANGED <<served, mi, events, df, location_columns, col_i, dim_i, error, store>>

\* requests.get or .json() raises
GetMatchesFail ==
    /\ pc = "get_matches"
    /\ requests' = Append(requests, MatchesRequest(FALSE))
    /\ pc' = "failed"
    /\ error' = "DataSourceError"
    /\ UNCHANGED <<served, match_ids, mi, events, df, location_columns, col_i, dim_i, store>>

\* (mutant) the events of a match put in front of those already fetched
GetEventsOkPrepend ==
    /\ pc = "get_events"
    /\ mi <= Len(match_ids)
    /\ requests' = Append(requests, EventsRequest(match_ids[mi], TRUE))
    /\ \E resp \in SeqsUpTo(EventPool, MaxEvents - Len(events)) :
          /\ served' = Append(served, resp)
          /\ events' = resp \o events
    /\ mi' = mi + 1
    /\ UNCHANGED <<pc, match_ids, df, location_columns, col_i, dim_i, error, store>>

\* one iteration of for match_id in match_ids: the events are appended
GetEventsOk ==
    /\ pc = "get_events"
    /\ mi <= Len(match_ids)
    /\ requests' = Append(requests, EventsRequest(match_ids[mi], TRUE))
    /\ \E resp \in SeqsUpTo(EventPool, MaxEvents - Len(events)) :
          /\ served' = Append(served, resp)
          /\ events' = events \o resp
    /\ mi' = mi + 1
    /\ UNCHANGED <<pc, match_ids, df, location_columns, col_i, dim_i, error, store>>

\* (mutant) a failed events fetch is skipped and the loop goes on
GetEventsFailSkip ==
    /\ pc = "get_events"
    /\ mi <= Len(match_ids)
    /\ requests' = Append(requests, EventsRequest(match_ids[mi], FALSE))
    /\ mi' = mi + 1
    /\ UNCHANGED <<pc, served, match_ids, events, df, location_columns, col_i, dim_i, error, store>>

\* requests.get or .json() raises inside the loop
GetEventsFail ==
    /\ pc = "get_events"
    /\ mi <= Len(match_ids)
    /\ requests' = Append(requests, EventsRequest(match_ids[mi], FALSE))
    /\ pc' = "failed"
    /\ error' = "DataSourceError"
    /\ UNCHANGED <<served, match_ids, mi, events, df, location_columns, col_i, dim_i, store>>

\* return pd.json_normalize(events); df = parse_data(...)
Normalize ==
    /\ pc = "get_events"
    /\ mi > Len(match_ids)
    /\ df' = json_normalize(events)
    /\ pc' = "rename"
    /\ UNCHANGED <<requests, served, match_ids, mi, events, location_columns, col_i, dim_i, error, store>>

Rename ==
    /\ pc = "rename"
    /\ df' = rename_columns(df)
    /\ pc' = "find_locations"
    /\ UNCHANGED <<requests, served, match_ids, mi, events, location_columns, col_i, dim_i, error, store>>

FindLocationColumns ==
    /\ pc = "find_locations"
    /\ location_columns' = find_location_columns(df)
    /\ col_i' = 1
    /\ dim_i' = 1
    /\ pc' = "split"
    /\ UNCHANGED <<requests, served, match_ids, mi, events, df, error, store>>

\* one iteration of the inner loop over the dimensions
SplitStep ==
    /\ pc = "split"
    /\ col_i <= Len(location_columns)
    /\ LET col == location_columns[col_i]
           new_col == replace_location(col, Dimensions[dim_i])
           series == apply_coordinate(df, col, dim_i)
       IN  IF In(IndexError, series)
           THEN /\ pc' = "failed"
                /\ error' = "IndexError"
                /\ UNCHANGED <<df, col_i, dim_i>>
           ELSE /\ df' = set_column(df, new_col, series)
                /\ IF dim_i < Len(Dimensions)
                   THEN dim_i' = dim_i + 1 /\ col_i' = col_i
                   ELSE dim_i' = 1 /\ col_i' = col_i + 1
                /\ UNCHANGED <<pc, error>>
    /\ UNCHANGED <<requests, served, match_ids, mi, events, location_columns, store>>

RemoveLocationColumns ==
    /\ pc = "split"
    /\ col_i > Len(location_columns)
    /\ df' = drop_columns(df, location_columns)
    /\ pc' = "remove_columns"
    /\ UNCHANGED <<requests, served, match_ids, mi, events, location_columns, col_i, dim_i, error, store>>

RemoveColumns ==
    /\ pc = "remove_columns"
    /\ df' = drop_columns(df, columns_to_remove)
    /\ pc' = "to_sql"
    /\ UNCHANGED <<requests, served, match_ids, mi, events, location_columns, col_i, dim_i, error, store>>

ToSql ==
    /\ pc = "to_sql"
    /\ IF sql_accepts(df)
       THEN /\ store' = [columns |-> df.columns, rows |-> df.rows, loaded |-> TRUE]
            /\ pc' = "done"
            /\ UNCHANGED error
       ELSE /\ pc' = "failed"
            /\ error' = "LoadError"
            /\ UNCHANGED store
    /\ UNCHANGED <<requests, served, match_ids, mi, events, df, location_columns, col_i, dim_i>>

Next ==
    \/ GetMatchesOk
    \/ GetMatchesFail
    \/ GetEventsOk
    \/ GetEventsFail
    \/ Normalize
    \/ Rename
    \/ FindLocationColumns
    \/ SplitStep
    \/ RemoveLocationColumns
    \/ RemoveColumns
    \/ ToSql

Spec == Init /\ [][Next]_vars

-----------------------------------------------------------------------------
\* What the properties speak of

\* the table is the one df.to_sql is called with
Handed == pc \in {"to_sql", "done"} \/ error = "LoadError"

\* parse_data has returned the table
Parsed == pc \in {"rename", "find_locations", "split", "remove_columns", "to_sql", "done"}
          \/ error \in {"IndexError", "LoadError"}

\* the leaf <<path, value>> items of event r
Leaves(r) == nested_to_record(events[r])

\* the cells row r holds under a column name
Cells(d, r, name) == {d.rows[r][j] : j \in {j \in 1..Len(d.columns) : d.columns[j] = name}}

Rows == 1..Len(df.rows)
Has(ev) == \E r \in 1..Len(events) : events[r] = ev

C_pass_end_location == <<"pass", "_", "end", "_", "location">>
C_pass_end_x == <<"pass", "_", "end", "_", "x">>
C_pass_end_y == <<"pass", "_", "end", "_", "y">>
C_shot_xg == <<"shot", "_", "xg">>
C_tactics_lineup == <<"tactics", "_", "lineup">>
C_tactics_lineup_k == <<"tactics", "_", "lineup", "_", "k">>

\* the three names the notebook lists for removal
RemovedNames == {C_tactics_lineup, <<"related", "_", "events">>,
                 <<"shot", "_", "freeze", "_", "frame">>}

\* name begins with prefix
HasPrefix(name, prefix) ==
    /\ Len(prefix) <= Len(name)
    /\ \A i \in 1..Len(prefix) : name[i] = prefix[i]

-----------------------------------------------------------------------------
\* C1 as claimed: every value of every row of the table handed to the SQL
\* load is a string, number, boolean or null, whatever the events hold.
C1_ScalarOnly == Handed => AllScalar(df)

\* C1 amended: a value handed to the SQL load is a scalar unless it is (a) a
\* list-valued event field of that row whose column name neither contains
\* 'location' nor is in columns_to_remove, passed through unchanged, or (b) a
\* derived x/y value that is a list or mapping element of a location list.
C1_ScalarOrPassedThrough ==
    Handed =>
      \A r \in Rows :
        LET L == Leaves(r)
        IN  \A j \in 1..Len(df.columns) :
              LET name == df.columns[j]
                  cell == df.rows[r][j]
              IN  \/ IsScalar(cell)
                  \/ /\ cell.t = "list"
                     /\ ~has_location(name)
                     /\ name \notin RemovedNames
                     /\ \E i \in 1..Len(L) :
                           replace_dot(L[i][1]) = name /\ L[i][2] = cell
                  \/ \E i \in 1..Len(L) : \E dim \in 1..2 :
                        LET col == replace_dot(L[i][1])
                            v == L[i][2]
                        IN  /\ has_location(col)
                            /\ name = replace_location(col, Dimensions[dim])
                            /\ v.t = "list"
                            /\ dim <= Len(v.v)
                            /\ cell = v.v[dim]

\* C1 witness: list-valued fields were present (related_events, a location)
\* and the table handed over holds scalars only.
C1_Witness == Handed /\ Has(EvShot) /\ Has(EvPass) /\ AllScalar(df)

\* C2 as claimed: for every event and every column whose renamed name contains
\* 'location' and whose value is a two-element list [a, b], the output row has
\* the 'x' column equal to a and the 'y' column equal to b.
C2_SplitCorrect ==
    Handed =>
      \A r \in Rows :
        LET L == Leaves(r)
        IN  \A i \in 1..Len(L) : \A dim \in 1..2 :
              LET col == replace_dot(L[i][1])
                  v == L[i][2]
              IN  (has_location(col) /\ v.t = "list" /\ Len(v.v) = 2)
                  => Cells(df, r, replace_location(col, Dimensions[dim])) = {v.v[dim]}

\* the values event r holds in fields whose renamed name is the column name
\* (none when the event lacks the field)
FieldValues(r, name) ==
    LET L == Leaves(r)
    IN  {L[i][2] : i \in {i \in 1..Len(L) : replace_dot(L[i][1]) = name}}

\* C3 as claimed: an event whose pass.end_location is absent or anything other
\* than a two-element list does not stop the flattening, and its output row
\* has pass_end_x = null and pass_end_y = null.
C3_NullSafe ==
    /\ error # "IndexError"
    /\ Handed =>
         \A r \in Rows :
           (\A v \in FieldValues(r, C_pass_end_location) : ~(v.t = "list" /\ Len(v.v) = 2))
           => /\ Cells(df, r, C_pass_end_x) \subseteq {Null}
              /\ Cells(df, r, C_pass_end_y) \subseteq {Null}

\* C3 amended: when the table has a pass_end_location column, a row whose
\* pass.end_location is absent or is not a list (a scalar, null) has
\* pass_end_x = null and pass_end_y = null; a list is not null-safe: with the
\* column label unique, a table is handed to the load only if every such list
\* has at least two elements, and the row then holds its first two elements
\* (so a list of three or more yields its first two, not null).
C3_NullUnlessList ==
    (Handed /\ In(C_pass_end_location, location_columns)) =>
      \A r \in Rows :
        LET vs == FieldValues(r, C_pass_end_location)
        IN  /\ (\A v \in vs : v.t # "list")
               => /\ Cells(df, r, C_pass_end_x) = {Null}
                  /\ Cells(df, r, C_pass_end_y) = {Null}
            /\ Count(C_pass_end_location, location_columns) = 1
               => \A v \in vs :
                     v.t = "list"
                     => /\ Len(v.v) >= 2
                        /\ Cells(df, r, C_pass_end_x) = {v.v[1]}
                        /\ Cells(df, r, C_pass_end_y) = {v.v[2]}

\* C3 witness: one row with a scalar pass.end_location and one row without the
\* field, in a table that has the derived columns.
C3_Witness ==
    /\ Handed
    /\ Has(EvPassScalar)
    /\ Has(EvShot)
    /\ In(C_pass_end_x, df.columns)

\* C4 as claimed: no output column is derived from tactics.lineup, whatever
\* its contents (a list, or a mapping expanded into tactics_lineup_<key>).
C4_NoLineupDerived ==
    Handed => \A j \in 1..Len(df.columns) : ~HasPrefix(df.columns[j], C_tactics_lineup)

\* C4 amended: no output column is named exactly tactics_lineup,
\* related_events or shot_freeze_frame; a mapping-valued tactics.lineup is
\* expanded into tactics_lineup_<key> columns, which this removal keeps.
C4_ExactNamesRemoved ==
    Handed =>
      /\ \A j \in 1..Len(df.columns) : df.columns[j] \notin RemovedNames
      /\ Has(EvLineupMap) => In(C_tactics_lineup_k, df.columns)

\* C4 witness: an event had a list-valued tactics.lineup and the table is handed over.
C4_Witness == Handed /\ Has(EvLineupList) /\ ~Has(EvLineupMap)

\* C5 as claimed: every scalar leaf of an event is in its output row under
\* the column named by its '_'-joined path, unless columns_to_remove names it.
C5_NoSilentLoss ==
    Handed =>
      \A r \in Rows :
        LET L == Leaves(r)
        IN  \A i \in 1..Len(L) :
              LET col == replace_dot(L[i][1])
                  v == L[i][2]
              IN  (IsScalar(v) /\ col \notin RemovedNames) => v \in Cells(df, r, col)

\* C6: after the split and the removal no column name contains 'location',
\* and every derived column the split created is still there.
C6_LocationRemoved ==
    (pc = "remove_columns" \/ Handed) =>
      /\ \A j \in 1..Len(df.columns) : ~has_location(df.columns[j])
      /\ \A c \in 1..Len(location_columns) : \A dim \in 1..2 :
            In(replace_location(location_columns[c], Dimensions[dim]), df.columns)

\* C6 witness: a table with a location column went through split and removal.
C6_Witness == Handed /\ Len(location_columns) > 0 /\ In(C_pass_end_y, df.columns)

\* the "."-joined leaf paths of event r
PathsOf(r) == LET L == Leaves(r) IN {L[i][1] : i \in 1..Len(L)}

\* the names a leaf path gives rise to in the output: its renamed name, or
\* the two derived names when the renamed name contains 'location'
OutputNames(path) ==
    LET col == replace_dot(path)
    IN  IF has_location(col)
        THEN {replace_location(col, Dimensions[dim]) : dim \in 1..2}
        ELSE {col} \ RemovedNames

\* C7: the table's column set is the union of the columns of all the events
\* and every row has a value for every column, null where its event has no
\* such field; so too for the derived x/y columns of a location field.
C7_ColumnUnion ==
    /\ Parsed => \A r \in Rows : Len(df.rows[r]) = Len(df.columns)
    /\ pc = "rename" =>
         /\ {df.columns[j] : j \in 1..Len(df.columns)}
               = UNION {PathsOf(r) : r \in 1..Len(events)}
         /\ \A r \in Rows :
              LET L == Leaves(r)
                  paths == {L[i][1] : i \in 1..Len(L)}
              IN  \A j \in 1..Len(df.columns) :
                    \/ \E i \in 1..Len(L) : L[i] = <<df.columns[j], df.rows[r][j]>>
                    \/ df.columns[j] \notin paths /\ df.rows[r][j] = Null
    /\ Handed =>
         /\ {df.columns[j] : j \in 1..Len(df.columns)}
               = UNION {OutputNames(p) : p \in UNION {PathsOf(r) : r \in 1..Len(events)}}
         /\ \A r \in Rows :
              LET names == UNION {OutputNames(p) : p \in PathsOf(r)}
              IN  \A j \in 1..Len(df.columns) :
                    df.columns[j] \notin names => df.rows[r][j] = Null

\* C7 witness: of two events only the first has shot.xg and only the second
\* has pass.end_location; both rows have both columns, null where lacking.
C7_Witness ==
    /\ Handed
    /\ events = <<EvShot, EvPass>>
    /\ Cells(df, 1, C_shot_xg) = {Num(5)}
    /\ Cells(df, 2, C_shot_xg) = {Null}
    /\ Cells(df, 1, C_pass_end_x) = {Null}
    /\ Cells(df, 2, C_pass_end_x) = {Num(10)}

\* C8: once a fetch has failed, it is the last request ever issued, the
\* failure is the outcome of parse_data, no step of the notebook can run, and
\* there is no table: nothing was normalized, renamed, split or loaded.
C8_FailureIsFatal ==
    (\E i \in 1..Len(requests) : ~requests[i].ok) =>
      /\ \A i \in 1..Len(requests) : requests[i].ok <=> i < Len(requests)
      /\ pc = "failed"
      /\ error = "DataSourceError"
      /\ ~ENABLED Next
      /\ df = EmptyFrame
      /\ location_columns = <<>>
      /\ ~store.loaded

\* C8 witness: the second events fetch failed after the first returned events.
C8_Witness ==
    /\ Len(requests) = 3
    /\ ~requests[3].ok
    /\ events # <<>>

\* C9: the match list is fetched once and then each match's events once, in
\* match-list order; the table has one row per event, in the order the events
\* were returned, and the later steps keep the rows and their order.
C9_OneRowPerEventInOrder ==
    /\ (pc # "get_matches" /\ \A i \in 1..Len(requests) : requests[i].ok)
       => requests = <<MatchesRequest(TRUE)>>
                     \o [i \in 1..(mi - 1) |-> EventsRequest(match_ids[i], TRUE)]
    /\ events = Concat(served)
    /\ Parsed =>
         /\ Len(served) = Len(match_ids)
         /\ Len(df.rows) = Len(events)
         /\ \A r \in Rows :
              LET L == Leaves(r)
              IN  \A j \in 1..Len(df.columns) :
                    \/ df.rows[r][j] = Null
                    \/ \E i \in 1..Len(L) :
                          \/ df.rows[r][j] = L[i][2]
                          \/ L[i][2].t = "list" /\ In(df.rows[r][j], L[i][2].v)

\* C9 witness: two matches, one event each, loaded as two rows.
C9_Witness ==
    /\ pc = "done"
    /\ match_ids = <<7, 8>>
    /\ served = << <<EvPass>>, <<EvShot>> >>
    /\ Len(store.rows) = 2

\* C10 as claimed: two leaf paths never end up in the same column and no step
\* overwrites an existing column: the table's column names are distinct after
\* the rename, and a derived name is never the name of a column of the table.
C10_NamesDistinct ==
    /\ Parsed => Distinct(df.columns)
    /\ (pc = "split" /\ col_i <= Len(location_columns))
       => ~In(replace_location(location_columns[col_i], Dimensions[dim_i]), df.columns)

====
